---- MODULE Spec2Model ----
(***************************************************************************)
(* Model of analyze_chat_history (src/chat_analyzer.py): the chunked,      *)
(* checkpointed classification-and-branch-assignment pipeline.             *)
(*                                                                         *)
(* A message is the record [id |-> n]; a SummaryMarker is the record       *)
(* [type |-> "summary", content |-> s].  The session key                   *)
(* "debug_session_<n>" is represented by the integer n.  An optional       *)
(* argument (Python None or an int) is a set: {} is None, {n} is n.        *)
(* A file is NoFile when it does not exist, else its JSON content.         *)
(***************************************************************************)
EXTENDS Integers, Sequences, FiniteSets, TLC

\* ---- bounds of the model ------------------------------------------------
MaxMsgs == 3
MaxChunkSize == 2
MaxStart == 2
MaxNum == 2
MaxIds == 2
MaxRuns == 2
\* how many values below 1 start_chunk and num_chunks take
MaxBelow == 2

\* ---- values --------------------------------------------------------------
NoFile == [exists |-> FALSE]
Exists(f) == f # NoFile

\* analysis.get("debugging_summary", ...) sees the key absent, null or a text
KeyAbsent == "<absent>"
JsonNull == "null"
FallbackSummary == "A debugging session occurred."
SummaryTexts == {KeyAbsent, JsonNull, "null pointer fix"}

Min(a, b) == IF a < b THEN a ELSE b
Max(a, b) == IF a > b THEN a ELSE b
Val(opt) == CHOOSE v \in opt : TRUE

\* Python s[a:b] on a list (0-based, half-open, negative indices count
\* from the end, out-of-range indices are clamped)
PySlice(s, a, b) ==
  LET n == Len(s)
      lo == IF a < 0 THEN Max(a + n, 0) ELSE Min(a, n)
      hi == IF b < 0 THEN Max(b + n, 0) ELSE Min(b, n)
  IN IF hi <= lo THEN << >> ELSE SubSeq(s, lo + 1, hi)

\* TotalChunks rounding down
TotalChunksFloor(msgs, w) == Len(msgs) \div w

\* total_chunks = (len(messages) + chunk_size - 1) // chunk_size
TotalChunks(msgs, w) == (Len(msgs) + w - 1) \div w

\* ---- the RunState --------------------------------------------------------
EmptyState ==
  [main_branch |-> << >>, summary_log |-> << >>,
   debugging_branches |-> << >>, debugging_session_count |-> 0,
   is_currently_debugging |-> FALSE]

IsMessage(e) == "id" \in DOMAIN e
IsMarker(e) == "type" \in DOMAIN e /\ e.type = "summary"

\* ---- the classifier's response ------------------------------------------
\* response.text is a sequence of tokens: a fence with or without the json
\* tag, whitespace, a JSON object (the analysis) or text that is not JSON.
FenceJson == [t |-> "fence_json"]
Fence == [t |-> "fence"]
Ws == [t |-> "ws"]
Junk == [t |-> "junk"]
Json(a) == [t |-> "json", v |-> a]

RECURSIVE LStrip(_)
LStrip(s) == IF s # << >> /\ Head(s) = Ws THEN LStrip(Tail(s)) ELSE s

RECURSIVE RStrip(_)
RStrip(s) ==
  IF s # << >> /\ s[Len(s)] = Ws THEN RStrip(SubSeq(s, 1, Len(s) - 1)) ELSE s

\* str.strip()
Strip(s) == RStrip(LStrip(s))

\* str.removeprefix of the json-tagged fence
RemovePrefix(s) == IF s # << >> /\ Head(s) = FenceJson THEN Tail(s) ELSE s

\* str.removesuffix of the bare fence
RemoveSuffix(s) ==
  IF s # << >> /\ s[Len(s)] = Fence THEN SubSeq(s, 1, Len(s) - 1) ELSE s

\* cleaned_text
CleanedText(text) == RemoveSuffix(RemovePrefix(Strip(text)))

ParseError == [raised |-> "JSONDecodeError"]

\* json.loads: surrounding whitespace is accepted, anything else around or
\* instead of the one JSON value is a JSONDecodeError
JsonLoads(s) ==
  LET body == Strip(s)
  IN IF Len(body) = 1 /\ body[1].t = "json" THEN body[1].v ELSE ParseError

\* ---- folding a chunk into the state -------------------------------------
\* an entry of the verdict debugging_message_ids list: a plain string id,
\* an object carrying an 'id', or something else (dropped)
StrItem(n) == [k |-> "str", id |-> n]
ObjItem(n) == [k |-> "obj", id |-> n]
OtherItem == [k |-> "other", id |-> 0]
\* a dict whose 'id' is a list, as in {"id": ["7"]}
ListIdItem == [k |-> "listid", id |-> 0]

\* set(processed_debugging_ids) raises TypeError (unhashable type: 'list')
\* when an item is a dict whose 'id' is a list: the loop appends item['id']
\* whatever it is
SetRaises(raw) == \E j \in 1..Len(raw) : raw[j].k = "listid"

\* processed_debugging_ids / debugging_message_ids = set(...)
NormalizeIds(raw) ==
  {raw[j].id : j \in {j \in 1..Len(raw) : raw[j].k \in {"str", "obj"}}}

\* session_key = f"debug_session_{debugging_session_count}"
SessionKey(count) == count

\* analysis.get("debugging_summary", "A debugging session occurred.")
MarkerContent(analysis) ==
  IF analysis.debugging_summary = KeyAbsent THEN FallbackSummary
  ELSE analysis.debugging_summary

\* OpenSession opening a session on every chunk that has debugging ids
OpenSessionAlways(rs, analysis) ==
  [rs EXCEPT !.is_currently_debugging = TRUE,
             !.debugging_session_count = @ + 1,
             !.main_branch =
                Append(@, [type |-> "summary",
                           content |-> MarkerContent(analysis)])]

\* OpenSession forgetting the SummaryMarker
OpenSessionNoMarker(rs, analysis) ==
  IF ~rs.is_currently_debugging
  THEN [rs EXCEPT !.is_currently_debugging = TRUE,
                  !.debugging_session_count = @ + 1]
  ELSE rs

\* if not is_currently_debugging: open a new session
OpenSession(rs, analysis) ==
  IF ~rs.is_currently_debugging
  THEN [rs EXCEPT !.is_currently_debugging = TRUE,
                  !.debugging_session_count = @ + 1,
                  !.main_branch =
                     Append(@, [type |-> "summary",
                                content |-> MarkerContent(analysis)])]
  ELSE rs

\* if session_key not in debugging_branches: debugging_branches[key] = []
EnsureKey(branches, key) ==
  [k \in DOMAIN branches \cup {key} |->
     IF k \in DOMAIN branches THEN branches[k] ELSE << >>]

\* Attribute without its else branch
AttributeNoElse(rs, chunk, D, key) ==
  LET InD(m) == m.id \in D
  IN [rs EXCEPT !.debugging_branches[key] = @ \o SelectSeq(chunk, InD)]

\* Attribute inserting at the front of the lists
AttributeAtFront(rs, chunk, D, key) ==
  LET InD(m) == m.id \in D
      NotInD(m) == m.id \notin D
  IN [rs EXCEPT !.debugging_branches[key] = SelectSeq(chunk, InD) \o @,
                !.main_branch = SelectSeq(chunk, NotInD) \o @]

\* for message in chunk: to the session's branch if its id is in D,
\* else to main_branch
Attribute(rs, chunk, D, key) ==
  LET InD(m) == m.id \in D
      NotInD(m) == m.id \notin D
  IN [rs EXCEPT !.debugging_branches[key] = @ \o SelectSeq(chunk, InD),
                !.main_branch = @ \o SelectSeq(chunk, NotInD)]

\* CloseSession leaving is_currently_debugging as it was
CloseSessionKeepsFlag(rs, chunk) ==
  [rs EXCEPT !.main_branch = @ \o chunk]

\* else: is_currently_debugging = False; main_branch.extend(chunk)
CloseSession(rs, chunk) ==
  [rs EXCEPT !.is_currently_debugging = FALSE,
             !.main_branch = @ \o chunk]

\* Fold that opens or continues a session only when is_debugging says so
FoldIfFlagged(rs, chunk, analysis) ==
  LET logged == [rs EXCEPT !.summary_log = @ \o analysis.chunk_summary]
      D == NormalizeIds(analysis.debugging_message_ids)
  IN IF D # {} /\ analysis.is_debugging
     THEN LET opened == OpenSession(logged, analysis)
              key == SessionKey(opened.debugging_session_count)
              ensured == [opened EXCEPT !.debugging_branches =
                                           EnsureKey(@, key)]
          IN Attribute(ensured, chunk, D, key)
     ELSE CloseSession(logged, chunk)

\* the body of the try block from summary_log.extend to main_branch.extend
Fold(rs, chunk, analysis) ==
  LET logged == [rs EXCEPT !.summary_log = @ \o analysis.chunk_summary]
      D == NormalizeIds(analysis.debugging_message_ids)
  IN IF D # {}
     THEN LET opened == OpenSession(logged, analysis)
              key == SessionKey(opened.debugging_session_count)
              ensured == [opened EXCEPT !.debugging_branches =
                                           EnsureKey(@, key)]
          IN Attribute(ensured, chunk, D, key)
     ELSE CloseSession(logged, chunk)

\* ---- the checkpoint ------------------------------------------------------
TypeError == [raised |-> "TypeError"]
Raised(v) == "raised" \in DOMAIN v

\* CheckpointData built as the dict the set display encloses
CheckpointDataDict(rs, idx) ==
  [main_branch |-> rs.main_branch, summary_log |-> rs.summary_log,
   debugging_branches |-> rs.debugging_branches,
   debugging_session_count |-> rs.debugging_session_count,
   is_currently_debugging |-> rs.is_currently_debugging,
   last_processed_chunk |-> idx]

\* checkpoint_data = {{ 'main_branch': ..., 'last_processed_chunk': ... }}:
\* a set display holding a dict display; building the set hashes the dict,
\* which raises TypeError (unhashable type: 'dict') every time
CheckpointData(rs, idx) == TypeError

\* with open(checkpoint_file, 'w') as f: json.dump(checkpoint_data, f):
\* open truncates the file in place and json.dump then writes it piece by
\* piece, so a process that dies in between leaves a cut-off file
Truncated == [truncated |-> TRUE]

\* what the file holds once the write has begun: all of data, or a cut-off
\* file when the process dies during the write
WriteOutcomes(data) == {data, Truncated}

\* the state a checkpoint file holds (checkpoint_data.get(...) per field)
LoadedState(ckpt) ==
  [main_branch |-> ckpt.main_branch, summary_log |-> ckpt.summary_log,
   debugging_branches |-> ckpt.debugging_branches,
   debugging_session_count |-> ckpt.debugging_session_count,
   is_currently_debugging |-> ckpt.is_currently_debugging]

\* is_limited_run = start_chunk is not None or num_chunks is not None
IsLimitedRun(sc, nc) == sc # {} \/ nc # {}

\* ShouldLoad without the test of is_limited_run
ShouldLoadAlways(limited, ckpt) == Exists(ckpt)

\* if not is_limited_run and os.path.exists(checkpoint_file)
ShouldLoad(limited, ckpt) == ~limited /\ Exists(ckpt)

\* ShouldRemove that leaves the checkpoint in place
ShouldRemoveNever(limited, ckpt) == FALSE

\* if os.path.exists(checkpoint_file) and not is_limited_run: os.remove
ShouldRemove(limited, ckpt) == Exists(ckpt) /\ ~limited

\* ---- state ---------------------------------------------------------------
VARIABLES
  messages,                 \* chat_data['messages'], the input
  chunk_size,               \* --chunk-size
  checkpoint_file,          \* analysis_checkpoint.json
  output_dir,               \* analysis_output/
  start_chunk, num_chunks,  \* the arguments of the current run
  main_branch, summary_log, debugging_branches,
  debugging_session_count, is_currently_debugging,
  debugging_message_ids,    \* the set D of the chunk folded last
  start_chunk_index, end_chunk_index,
  i,                        \* the loop variable of the for loop
  pc,                       \* "idle", "loop", "done", "aborted", "killed"
  err,                      \* what aborted the run: "classify", "parse",
                            \* "normalize", "save", "load", or "none"
  failAt,                   \* the chunk indices the classifier fails on
  runNo,                    \* history: number of runs started
  classified,               \* history: chunk indices sent to the classifier
  sent,                     \* history: the chunks sent to the classifier
  rejected,                 \* history: the response text json.loads rejected
  lastFolded,               \* history: index of the chunk folded last, or {}
  loaded,                   \* history: the run began from a checkpoint
  closed,                   \* history: the sessions closed by a chunk
  prevRun                   \* history: how the previous run ended

vars ==
  << messages, chunk_size, checkpoint_file, output_dir, start_chunk,
     num_chunks, main_branch, summary_log, debugging_branches,
     debugging_session_count, is_currently_debugging, debugging_message_ids,
     start_chunk_index, end_chunk_index, i, pc, err, failAt, runNo,
     classified, sent, lastFolded, loaded, closed, prevRun, rejected >>

RunState ==
  [main_branch |-> main_branch, summary_log |-> summary_log,
   debugging_branches |-> debugging_branches,
   debugging_session_count |-> debugging_session_count,
   is_currently_debugging |-> is_currently_debugging]

is_limited_run == IsLimitedRun(start_chunk, num_chunks)
total_chunks == TotalChunks(messages, chunk_size)

\* current_chunk_index = i // chunk_size
current_chunk_index == i \div chunk_size

\* chunk = messages[i:i + chunk_size]
chunk == PySlice(messages, i, i + chunk_size)

\* the for loop has a next iteration: i is inside the range and the
\* break on i >= len(messages) is not taken
InLoop ==
  /\ pc = "loop"
  /\ i < end_chunk_index * chunk_size
  /\ i < Len(messages)

\* ---- inputs --------------------------------------------------------------
Inputs == {[j \in 1..n |-> [id |-> j]] : n \in 0..MaxMsgs}

IdsOf(s) == {s[j].id : j \in 1..Len(s)}

\* an id that is not the id of a message of the chunk: the id of a message
\* elsewhere in the input when there is one, else the id of no message
ForeignId(msgs, c) ==
  LET others == IdsOf(msgs) \ IdsOf(c)
  IN IF others # {} THEN CHOOSE n \in others : \A o \in others : n <= o
     ELSE Len(msgs) + 1

\* the payloads the classifier may answer for a chunk
VerdictIds(msgs, c) == IdsOf(c) \cup {ForeignId(msgs, c)}

RECURSIVE Sorted(_)
Sorted(S) ==
  IF S = {} THEN << >>
  ELSE LET m == CHOOSE x \in S : \A y \in S : x <= y
       IN << m >> \o Sorted(S \ {m})

\* the entries a list is made of: each id in one of the two forms the code
\* accepts (odd ids as plain strings, even ids as objects carrying an 'id'),
\* and an entry of neither form
ItemSeq(ids) ==
  LET s == Sorted(ids)
  IN [j \in 1..Len(s) |->
        IF s[j] % 2 = 1 THEN StrItem(s[j]) ELSE ObjItem(s[j])]
     \o << OtherItem >>

\* the lists of at most MaxIds entries, up to the order and the repetition
\* of entries, which set() discards
IdLists(ids) ==
  LET items == ItemSeq(ids)
      picks == {I \in SUBSET (1..Len(items)) : Cardinality(I) <= MaxIds}
  IN {[j \in 1..Cardinality(I) |-> items[Sorted(I)[j]]] : I \in picks}

\* chunk_summary: one entry for each message of the chunk, as the prompt asks
ChunkSummaries(c) ==
  {[j \in 1..Len(c) |-> [id |-> c[j].id, summary |-> "summary"]]}

Analyses(msgs, c) ==
  [is_debugging : BOOLEAN,
   debugging_summary : SummaryTexts,
   debugging_message_ids : IdLists(VerdictIds(msgs, c)),
   chunk_summary : ChunkSummaries(c)]

\* the texts that carry a payload: bare, or fenced on both sides
Texts(a) == {<< Json(a) >>, << FenceJson, Ws, Json(a), Ws, Fence, Ws >>}

\* texts that json.loads rejects
BadTexts == {<< Junk >>, << >>}

\* a verdict for chunk c between two bare fences, the opening fence
\* carrying no json tag
BareFenced(c) ==
  {<< Fence, Ws, Json(a), Ws, Fence >> :
     a \in [is_debugging : {FALSE}, debugging_summary : {JsonNull},
            debugging_message_ids : {<< >>},
            chunk_summary : ChunkSummaries(c)]}

\* verdicts that parse and whose id list cannot be made a set
UnhashableVerdicts(c) ==
  [is_debugging : {TRUE},
   debugging_summary : {KeyAbsent},
   debugging_message_ids : {<< ListIdItem >>},
   chunk_summary : ChunkSummaries(c)]

\* the content of a checkpoint file: the RunState and the chunk index
CheckpointRecord(rs, idx) ==
  [main_branch |-> rs.main_branch, summary_log |-> rs.summary_log,
   debugging_branches |-> rs.debugging_branches,
   debugging_session_count |-> rs.debugging_session_count,
   is_currently_debugging |-> rs.is_currently_debugging,
   last_processed_chunk |-> idx]

\* The checkpoint files found before the first run.  The file is an input
\* of the run (it is read when the run is unbounded); the ones enumerated
\* are those of a run that stopped after chunk 0, with the chunk sent whole
\* to main_branch or whole to debug_session_1.
FoundCheckpoints(msgs, w) ==
  IF msgs = << >> THEN {}
  ELSE LET c == PySlice(msgs, 0, w)
           quiet == [is_debugging |-> FALSE,
                     debugging_summary |-> KeyAbsent,
                     debugging_message_ids |-> << >>,
                     chunk_summary |-> CHOOSE cs \in ChunkSummaries(c) : TRUE]
           debug == [quiet EXCEPT !.is_debugging = TRUE,
                                  !.debugging_message_ids =
                                     [j \in 1..Len(c) |-> StrItem(c[j].id)]]
       IN {CheckpointRecord(Fold(EmptyState, c, quiet), 0),
           CheckpointRecord(Fold(EmptyState, c, debug), 0)}

NoRun == [ran |-> FALSE]

Init ==
  /\ messages \in Inputs
  /\ chunk_size \in 1..MaxChunkSize
  /\ checkpoint_file \in {NoFile} \cup FoundCheckpoints(messages, chunk_size)
  /\ output_dir = NoFile
  /\ start_chunk = {} /\ num_chunks = {}
  /\ main_branch = << >> /\ summary_log = << >>
  /\ debugging_branches = << >>
  /\ debugging_session_count = 0
  /\ is_currently_debugging = FALSE
  /\ debugging_message_ids = {}
  /\ start_chunk_index = 0 /\ end_chunk_index = 0 /\ i = 0
  /\ pc = "idle" /\ err = "none" /\ failAt = {}
  /\ runNo = 0 /\ classified = << >> /\ sent = << >> /\ lastFolded = {}
  /\ rejected = << >>
  /\ loaded = FALSE /\ closed = {}
  /\ prevRun = NoRun

\* the sessions of a state that are no longer open
ClosedSessions(rs) ==
  {k \in 1..rs.debugging_session_count :
     k < rs.debugging_session_count \/ ~rs.is_currently_debugging}

\* ---- starting a run ------------------------------------------------------
\* the values of --start-chunk (1-based) and --num-chunks; {} is None
StartChunks == {{}} \cup {{n} : n \in 1..MaxStart}
NumChunks == {{}} \cup {{n} : n \in 1..MaxNum}

\* start_chunk_index
StartChunkIndex(load, ckpt, sc) ==
  IF load THEN ckpt.last_processed_chunk + 1
  ELSE IF sc # {} THEN Val(sc) - 1 ELSE 0

\* EndChunkIndex counting the cap from chunk 0
EndChunkIndexFromZero(start, nc, total) ==
  IF nc # {} THEN Min(Val(nc), total) ELSE total

\* end_chunk_index
EndChunkIndex(start, nc, total) ==
  IF nc # {} THEN Min(start + Val(nc), total) ELSE total

\* From the call of analyze_chat_history to the top of the for loop.  A run
\* after the first one is the full analysis being run again.
StartRun(sc, nc, fa) ==
  /\ pc \in {"idle", "done", "aborted", "killed"}
  /\ runNo < MaxRuns
  /\ runNo > 0 => ~is_limited_run /\ ~IsLimitedRun(sc, nc)
  /\ LET limited == IsLimitedRun(sc, nc)
         load == ShouldLoad(limited, checkpoint_file)
         \* json.load of a cut-off file raises outside the try block
         broken == load /\ checkpoint_file = Truncated
         rs == IF load /\ ~broken THEN LoadedState(checkpoint_file)
               ELSE EmptyState
         start == IF broken THEN 0
                  ELSE StartChunkIndex(load, checkpoint_file, sc)
     IN /\ pc' = IF broken THEN "aborted" ELSE "loop"
        /\ err' = IF broken THEN "load" ELSE "none"
        /\ main_branch' = rs.main_branch
        /\ summary_log' = rs.summary_log
        /\ debugging_branches' = rs.debugging_branches
        /\ debugging_session_count' = rs.debugging_session_count
        /\ is_currently_debugging' = rs.is_currently_debugging
        /\ start_chunk_index' = start
        /\ end_chunk_index' = EndChunkIndex(start, nc, total_chunks)
        /\ i' = start * chunk_size
        /\ loaded' = load
        /\ closed' = ClosedSessions(rs)
  /\ start_chunk' = sc /\ num_chunks' = nc /\ failAt' = fa
  /\ debugging_message_ids' = {}
  /\ runNo' = runNo + 1 /\ classified' = << >> /\ sent' = << >>
  /\ lastFolded' = {} /\ rejected' = << >>
  /\ prevRun' = IF runNo = 0 THEN NoRun
                ELSE [ran |-> TRUE, limited |-> is_limited_run,
                      loaded |-> loaded, lastFolded |-> lastFolded,
                      state |-> RunState, err |-> err, failAt |-> failAt]
  /\ UNCHANGED << messages, chunk_size, checkpoint_file, output_dir >>

\* ---- one iteration of the loop -------------------------------------------
\* model.generate_content raises: the except clause ends the run (by its
\* return, or on the first call of a run by the NameError its own
\* response.text raises, response being unbound)
ClassifyRaises ==
  /\ InLoop
  /\ current_chunk_index \in failAt
  /\ pc' = "aborted" /\ err' = "classify"
  /\ classified' = Append(classified, current_chunk_index)
  /\ sent' = Append(sent, chunk)
  /\ UNCHANGED << messages, chunk_size, checkpoint_file, output_dir,
                  start_chunk, num_chunks, main_branch, summary_log,
                  debugging_branches, debugging_session_count,
                  is_currently_debugging, debugging_message_ids,
                  start_chunk_index, end_chunk_index, i, failAt, runNo,
                  lastFolded, loaded, closed, prevRun, rejected >>

\* ParseFails leaving the loop with break where the code returns
ParseFailsBreaks ==
  /\ InLoop
  /\ current_chunk_index \in failAt
  /\ \E text \in BadTexts \cup BareFenced(chunk) :
       /\ Raised(JsonLoads(CleanedText(text)))
       /\ rejected' = text
  /\ pc' = "loop" /\ err' = "parse"
  /\ i' = Max(end_chunk_index * chunk_size, i + chunk_size)
  /\ classified' = Append(classified, current_chunk_index)
  /\ sent' = Append(sent, chunk)
  /\ UNCHANGED << messages, chunk_size, checkpoint_file, output_dir,
                  start_chunk, num_chunks, main_branch, summary_log,
                  debugging_branches, debugging_session_count,
                  is_currently_debugging, debugging_message_ids,
                  start_chunk_index, end_chunk_index, failAt, runNo,
                  lastFolded, loaded, closed, prevRun >>

\* json.loads raises JSONDecodeError: the except clause ends the run
ParseFails ==
  /\ InLoop
  /\ current_chunk_index \in failAt
  /\ \E text \in BadTexts \cup BareFenced(chunk) :
       /\ Raised(JsonLoads(CleanedText(text)))
       /\ rejected' = text
  /\ pc' = "aborted" /\ err' = "parse"
  /\ classified' = Append(classified, current_chunk_index)
  /\ sent' = Append(sent, chunk)
  /\ UNCHANGED << messages, chunk_size, checkpoint_file, output_dir,
                  start_chunk, num_chunks, main_branch, summary_log,
                  debugging_branches, debugging_session_count,
                  is_currently_debugging, debugging_message_ids,
                  start_chunk_index, end_chunk_index, i, failAt, runNo,
                  lastFolded, loaded, closed, prevRun >>

\* The answer parses and set(processed_debugging_ids) raises: the except
\* clause ends the run, after summary_log.extend has run
NormalizeFails ==
  /\ InLoop
  /\ current_chunk_index \in failAt
  /\ \E a \in UnhashableVerdicts(chunk) :
     \E analysis \in {JsonLoads(CleanedText(<< Json(a) >>))} :
       /\ ~Raised(analysis)
       /\ SetRaises(analysis.debugging_message_ids)
       /\ summary_log' = summary_log \o analysis.chunk_summary
  /\ pc' = "aborted" /\ err' = "normalize"
  /\ classified' = Append(classified, current_chunk_index)
  /\ sent' = Append(sent, chunk)
  /\ UNCHANGED << messages, chunk_size, checkpoint_file, output_dir,
                  start_chunk, num_chunks, main_branch,
                  debugging_branches, debugging_session_count,
                  is_currently_debugging, debugging_message_ids,
                  start_chunk_index, end_chunk_index, i, failAt, runNo,
                  lastFolded, loaded, closed, prevRun, rejected >>

\* The classifier answers, the answer parses, the chunk is folded into the
\* state and, on a full run, the checkpoint is saved.  Building
\* checkpoint_data raises, the except clause ends the run and the file is
\* never opened for writing.  (Were checkpoint_data built, the write would
\* follow, and the process could die during it.)
FoldChunk ==
  /\ InLoop
  /\ current_chunk_index \notin failAt
  /\ \E a \in Analyses(messages, chunk) : \E text \in Texts(a) :
     \E analysis \in {JsonLoads(CleanedText(text))} :
       /\ ~Raised(analysis)
       /\ \E rs \in {Fold(RunState, chunk, analysis)} :
          \E data \in {CheckpointData(rs, current_chunk_index)} :
          \E written \in IF ~is_limited_run /\ ~Raised(data)
                         THEN WriteOutcomes(data) ELSE {checkpoint_file} :
            LET saves == ~is_limited_run
                saveRaises == saves /\ Raised(data)
                dies == saves /\ ~Raised(data) /\ written = Truncated
            IN /\ main_branch' = rs.main_branch
               /\ summary_log' = rs.summary_log
               /\ debugging_branches' = rs.debugging_branches
               /\ debugging_session_count' = rs.debugging_session_count
               /\ is_currently_debugging' = rs.is_currently_debugging
               /\ debugging_message_ids' =
                    NormalizeIds(analysis.debugging_message_ids)
               /\ checkpoint_file' = written
               /\ pc' = IF saveRaises THEN "aborted"
                        ELSE IF dies THEN "killed" ELSE "loop"
               /\ err' = IF saveRaises THEN "save" ELSE "none"
               /\ i' = IF saveRaises \/ dies THEN i ELSE i + chunk_size
  /\ classified' = Append(classified, current_chunk_index)
  /\ sent' = Append(sent, chunk)
  /\ lastFolded' = {current_chunk_index}
  /\ closed' = IF debugging_message_ids' = {} /\ is_currently_debugging
               THEN closed \cup {debugging_session_count} ELSE closed
  /\ UNCHANGED << messages, chunk_size, output_dir, start_chunk, num_chunks,
                  start_chunk_index, end_chunk_index, failAt, runNo,
                  loaded, prevRun, rejected >>

\* The process is terminated from outside between two iterations of a full
\* run.  (A bounded run saves nothing, so its termination leaves nothing
\* behind and is not modelled.)
Terminate ==
  /\ pc = "loop"
  /\ ~is_limited_run
  /\ pc' = "killed"
  /\ UNCHANGED << messages, chunk_size, checkpoint_file, output_dir,
                  start_chunk, num_chunks, main_branch, summary_log,
                  debugging_branches, debugging_session_count,
                  is_currently_debugging, debugging_message_ids,
                  start_chunk_index, end_chunk_index, i, err, failAt, runNo,
                  classified, sent, lastFolded, loaded, closed, prevRun,
                  rejected >>

\* ---- after the loop ------------------------------------------------------
\* the session files already in analysis_output stay unless overwritten
SessionFiles(old, branches) ==
  LET before == IF Exists(old) THEN old.sessions ELSE << >>
  IN [k \in DOMAIN before \cup DOMAIN branches |->
        IF k \in DOMAIN branches THEN branches[k] ELSE before[k]]

\* the outputs are written and, on a full run, the checkpoint is removed
Finish ==
  /\ pc = "loop"
  /\ ~InLoop
  /\ output_dir' = [main_branch |-> main_branch,
                    summary_log |-> summary_log,
                    sessions |-> SessionFiles(output_dir,
                                              debugging_branches)]
  /\ checkpoint_file' =
       IF ShouldRemove(is_limited_run, checkpoint_file) THEN NoFile
       ELSE checkpoint_file
  /\ pc' = "done"
  /\ UNCHANGED << messages, chunk_size, start_chunk, num_chunks,
                  main_branch, summary_log, debugging_branches,
                  debugging_session_count, is_currently_debugging,
                  debugging_message_ids, start_chunk_index,
                  end_chunk_index, i, err, failAt, runNo, classified,
                  sent, lastFolded, loaded, closed, prevRun, rejected >>

FailAts == {{}} \cup {{k} : k \in 0..(total_chunks - 1)}

\* a run is started with some arguments and some classifier
Start ==
  \E sc \in StartChunks, nc \in NumChunks, fa \in FailAts :
    StartRun(sc, nc, fa)

Next ==
  \/ Start
  \/ ClassifyRaises
  \/ ParseFails
  \/ NormalizeFails
  \/ FoldChunk
  \/ Terminate
  \/ Finish

Spec == Init /\ [][Next]_vars

\* ---- the arguments the command line accepts --------------------------------
\* --start-chunk and --num-chunks are type=int with no further check, so 0
\* and negative values reach analyze_chat_history as they are
AnyStartChunks == {{}} \cup {{n} : n \in (1 - MaxBelow)..MaxStart}
AnyNumChunks == {{}} \cup {{n} : n \in (1 - MaxBelow)..MaxNum}

StartCli ==
  \E sc \in AnyStartChunks, nc \in AnyNumChunks, fa \in FailAts :
    StartRun(sc, nc, fa)

NextCli ==
  \/ StartCli
  \/ ClassifyRaises
  \/ ParseFails
  \/ NormalizeFails
  \/ FoldChunk
  \/ Terminate
  \/ Finish

SpecCli == Init /\ [][NextCli]_vars

\* ---- properties ----------------------------------------------------------
MessagesOf(s) == SelectSeq(s, IsMessage)
NumMarkers(s) == Len(SelectSeq(s, IsMarker))

\* the (session, position) slots of the debugging branches
BranchSlots ==
  UNION {{<< k, j >> : j \in 1..Len(debugging_branches[k])} :
           k \in DOMAIN debugging_branches}

\* how often message m occurs in main_branch and the debugging branches
Occurrences(m) ==
  Cardinality({j \in 1..Len(main_branch) : main_branch[j] = m})
  + Cardinality({p \in BranchSlots : debugging_branches[p[1]][p[2]] = m})

ExactlyOnce == \A j \in 1..Len(messages) : Occurrences(messages[j]) = 1

\* the run began with the empty state at chunk 0 and has no cap below the
\* number of chunks
WholeInputRun ==
  ~loaded /\ start_chunk_index = 0 /\ end_chunk_index = total_chunks

\* a step that folds a chunk into the state
FoldStep == runNo' = runNo /\ lastFolded' # lastFolded

\* C1, as stated: in every run that reaches the output step, every message
\* of the input occurs exactly once in main_branch and the debugging
\* branches together.
C1_EveryCompletedRun == pc = "done" => ExactlyOnce

\* C1, amended: in every run that begins with the empty state at chunk 0,
\* has no cap below the number of chunks and reaches the output step, every
\* message of the input occurs exactly once in main_branch and the
\* debugging branches together.
C1_WholeInputRunPartitions == pc = "done" /\ WholeInputRun => ExactlyOnce

C1_Witness ==
  /\ pc = "done" /\ WholeInputRun
  /\ Len(messages) >= 3
  /\ Len(MessagesOf(main_branch)) >= 1
  /\ \E k \in DOMAIN debugging_branches : Len(debugging_branches[k]) >= 1

\* C2: on an unbounded run, once chunk i is folded the checkpoint file holds
\* the whole RunState with last processed chunk index i.
C2_CheckpointHoldsFoldedState ==
  runNo >= 1 /\ ~is_limited_run /\ lastFolded # {}
    => checkpoint_file = CheckpointRecord(RunState, Val(lastFolded))

\* C3: an unbounded run that follows an unbounded run stopped after chunk k
\* was folded and its checkpoint step passed begins with the RunState that
\* run had, at chunk k + 1 (so that it ends as the uninterrupted run does).
C3_ResumeContinuesInterruptedRun ==
  /\ prevRun.ran /\ ~prevRun.limited /\ prevRun.lastFolded # {}
  /\ ~is_limited_run /\ pc = "loop" /\ classified = << >>
  => /\ RunState = prevRun.state
     /\ start_chunk_index = Val(prevRun.lastFolded) + 1

\* C4: when an unbounded run whose classifier fails on chunk k >= 1 (and on
\* no earlier chunk) has ended, the checkpoint is the one of chunk k - 1, and
\* the next unbounded run starts at chunk k and classifies no chunk below k.
C4_FailureKeepsPreviousCheckpoint ==
  /\ (/\ runNo >= 1 /\ ~is_limited_run /\ pc \in {"done", "aborted"}
      /\ \E k \in failAt : k >= 1)
     => /\ Exists(checkpoint_file)
        /\ checkpoint_file.last_processed_chunk = Val(failAt) - 1
  /\ (/\ prevRun.ran /\ ~prevRun.limited /\ ~is_limited_run
      /\ \E k \in prevRun.failAt : k >= 1)
     => /\ start_chunk_index = Val(prevRun.failAt)
        /\ \A j \in 1..Len(classified) : classified[j] >= Val(prevRun.failAt)

\* C5: a bounded run begins with the empty state at the chunk its arguments
\* name, whatever the checkpoint file holds, and no step of it changes the
\* checkpoint file.
C5_BoundedRunIgnoresCheckpoint ==
  [][/\ (runNo' = runNo + 1 /\ is_limited_run')
          => /\ checkpoint_file' = checkpoint_file
             /\ RunState' = EmptyState
             /\ start_chunk_index' =
                  IF start_chunk' # {} THEN Val(start_chunk') - 1 ELSE 0
     /\ (runNo' = runNo /\ is_limited_run)
          => checkpoint_file' = checkpoint_file]_vars

C5_Witness ==
  /\ is_limited_run /\ pc = "done" /\ lastFolded # {}
  /\ Exists(checkpoint_file)
  /\ checkpoint_file.debugging_session_count = 1
  /\ debugging_session_count = 0

\* C6: folding a chunk with non-empty D while is_currently_debugging is true
\* opens no session: the count and the SummaryMarkers are unchanged and the
\* messages with id in D are appended to the branch of the current count.
\* Folding one while it is false opens one session with one SummaryMarker,
\* so two such chunks in a row fill one session with one marker.
C6_OpenSessionContinues ==
  [][FoldStep /\ debugging_message_ids' # {} =>
       LET InD(m) == m.id \in debugging_message_ids'
           key == SessionKey(debugging_session_count)
       IN /\ is_currently_debugging'
          /\ IF is_currently_debugging
             THEN /\ debugging_session_count' = debugging_session_count
                  /\ NumMarkers(main_branch') = NumMarkers(main_branch)
                  /\ debugging_branches' =
                       [debugging_branches EXCEPT
                          ![key] = @ \o SelectSeq(chunk, InD)]
             ELSE /\ debugging_session_count' = debugging_session_count + 1
                  /\ NumMarkers(main_branch') = NumMarkers(main_branch) + 1
                  /\ debugging_branches'[key + 1] = SelectSeq(chunk, InD)
    ]_vars

C6_Witness ==
  /\ chunk_size = 1 /\ is_limited_run /\ is_currently_debugging
  /\ debugging_session_count = 1
  /\ Len(debugging_branches[1]) = 2
  /\ NumMarkers(main_branch) = 1

C8_ForeignIdsInert ==
  [][FoldStep =>
       \E a \in Analyses(messages, chunk) :
         /\ NormalizeIds(a.debugging_message_ids)
              = debugging_message_ids' \cap IdsOf(chunk)
         /\ RunState' = Fold(RunState, chunk, a)
    ]_vars

\* C9: after every folded chunk of a run that began with the empty state,
\* debugging_session_count is the number of SummaryMarkers in main_branch
\* and the number of keys of debugging_branches.
C9_CountMatchesMarkersAndKeys ==
  ~loaded /\ lastFolded # {}
    => /\ debugging_session_count = NumMarkers(main_branch)
       /\ debugging_session_count = Cardinality(DOMAIN debugging_branches)

C9_Witness ==
  ~loaded /\ lastFolded # {} /\ debugging_session_count = 2

\* the messages of s are messages of the input, in the order of the input
InInputOrder(s) ==
  LET Position(m) == CHOOSE j \in 1..Len(messages) : messages[j] = m
  IN /\ \A a \in 1..Len(s) : \E j \in 1..Len(messages) : messages[j] = s[a]
     /\ \A a, b \in 1..Len(s) : a < b => Position(s[a]) < Position(s[b])

\* C10: at every point, the messages of main_branch and of each debugging
\* branch are in the order they have in the input.
C10_OrderPreserved ==
  /\ InInputOrder(MessagesOf(main_branch))
  /\ \A k \in DOMAIN debugging_branches : InInputOrder(debugging_branches[k])

C10_Witness ==
  /\ chunk_size = 1 /\ lastFolded # {}
  /\ Len(MessagesOf(main_branch)) >= 1
  /\ \E k \in DOMAIN debugging_branches : Len(debugging_branches[k]) >= 2

RECURSIVE Concat(_)
Concat(ss) == IF ss = << >> THEN << >> ELSE Head(ss) \o Concat(Tail(ss))

\* C11: for a non-empty input, the chunks of a run that begins at chunk 0
\* with the empty state, has no cap and reaches the end of the loop are the
\* windows 0, 1, ... in order, each of chunk_size messages except possibly
\* the last, and their concatenation is the input.
C11_ChunksPartitionInput ==
  /\ pc = "done" /\ messages # << >>
  /\ ~loaded /\ start_chunk_index = 0 /\ num_chunks = {}
  => /\ Concat(sent) = messages
     /\ classified = [j \in 1..Len(sent) |-> j - 1]
     /\ \A j \in 1..Len(sent) :
          /\ Len(sent[j]) >= 1
          /\ j < Len(sent) => Len(sent[j]) = chunk_size
          /\ Len(sent[j]) <= chunk_size

C11_Witness ==
  /\ pc = "done" /\ ~loaded /\ start_chunk_index = 0 /\ num_chunks = {}
  /\ chunk_size = 2 /\ Len(sent) = 2 /\ Len(sent[2]) = 1

\* the chunk indices the loop of this run covers
RangeOfRun ==
  LET n == Max(0, Min(end_chunk_index, total_chunks) - start_chunk_index)
  IN [j \in 1..n |-> start_chunk_index + j - 1]

\* C12: a chunk that ends in an error stops the run: the step that fails
\* writes neither checkpoint nor outputs, nothing more of that run happens
\* afterwards (the only step from there is the start of another run), and
\* the outputs are written only by a run without error whose every chunk in
\* range has been folded.
C12_ErrorStopsTheRun ==
  [][ /\ pc' = "aborted" =>
           /\ output_dir' = output_dir
           /\ checkpoint_file' = checkpoint_file
      /\ pc = "aborted" =>
           /\ runNo' = runNo + 1
           /\ output_dir' = output_dir
           /\ checkpoint_file' = checkpoint_file
      /\ output_dir' # output_dir =>
           /\ err = "none"
           /\ classified = RangeOfRun
           /\ classified # << >> => lastFolded = {classified[Len(classified)]}
    ]_vars

C12_Witness ==
  /\ pc = "aborted" /\ err = "parse"
  /\ Len(classified) = 2 /\ lastFolded = {classified[1]}
  /\ ~Exists(output_dir)

\* C13: once a full run has completed there is no checkpoint file, and the
\* only step at which a checkpoint file disappears is the completion of a
\* full run: never the failure of a run, never a bounded run.
C13_CheckpointRemovedOnCompletionOnly ==
  [][ /\ (pc' = "done" /\ ~is_limited_run') => ~Exists(checkpoint_file')
      /\ (Exists(checkpoint_file) /\ ~Exists(checkpoint_file')) =>
           /\ pc = "loop" /\ pc' = "done"
           /\ err = "none" /\ ~is_limited_run
    ]_vars

C13_Witness ==
  /\ pc = "done" /\ ~is_limited_run /\ loaded
  /\ ~Exists(checkpoint_file) /\ Exists(output_dir)

\* the messages a checkpoint holds, in main_branch and in the branches
HeldBy(ck) ==
  {ck.main_branch[j] : j \in {n \in 1..Len(ck.main_branch) :
                                 IsMessage(ck.main_branch[n])}}
  \cup UNION {{ck.debugging_branches[k][j] :
                 j \in 1..Len(ck.debugging_branches[k])} :
                k \in DOMAIN ck.debugging_branches}

\* ck has every field of a checkpoint and holds the state of the run after
\* some chunk was folded: the messages up to the end of that chunk
IsCompleteCheckpoint(ck) ==
  /\ DOMAIN ck = {"main_branch", "summary_log", "debugging_branches",
                  "debugging_session_count", "is_currently_debugging",
                  "last_processed_chunk"}
  /\ ck.last_processed_chunk \in 0..(total_chunks - 1)
  /\ LET upto == PySlice(messages, 0,
                         (ck.last_processed_chunk + 1) * chunk_size)
     IN /\ HeldBy(ck) = {upto[j] : j \in 1..Len(upto)}
        /\ Len(ck.summary_log) = Len(upto)

C15_FailedChunkLeavesStateAlone ==
  [][(pc' = "aborted" /\ err' \in {"classify", "parse", "normalize"})
       => RunState' = RunState]_vars

\* C16: folding a chunk with non-empty D while no session is open appends
\* to main_branch one SummaryMarker, then the messages of the chunk whose id
\* is not in D, and puts the messages with id in D on the branch of the new
\* session; the marker carries the summary text of the verdict, or the
\* generic text when the verdict has no summary text.
C16_NewSessionMarker ==
  [][(FoldStep /\ debugging_message_ids' # {} /\ ~is_currently_debugging) =>
       LET InD(m) == m.id \in debugging_message_ids'
           NotInD(m) == m.id \notin debugging_message_ids'
           at == Len(main_branch) + 1
       IN /\ Len(main_branch') >= at
          /\ IsMarker(main_branch'[at])
          /\ main_branch'[at].content
               \in (SummaryTexts \ {KeyAbsent, JsonNull}) \cup {FallbackSummary}
          /\ main_branch' = main_branch \o << main_branch'[at] >>
                              \o SelectSeq(chunk, NotInD)
          /\ debugging_branches'[SessionKey(debugging_session_count')]
               = SelectSeq(chunk, InD)
    ]_vars

\* C17: two verdicts that differ only in is_debugging fold into the same
\* RunState: for every chunk the loop is about to classify and every
\* verdict for it, the fold of the verdict and the fold of the verdict with
\* is_debugging negated are equal.
C17_FlagIsInformational ==
  InLoop =>
    \A a \in Analyses(messages, chunk) :
      Fold(RunState, chunk, [a EXCEPT !.is_debugging = ~@])
        = Fold(RunState, chunk, a)

\* a verdict that says is_debugging false and names a message of the chunk
\* opens a session in a run that has folded a chunk already
C17_Witness ==
  /\ InLoop /\ lastFolded # {} /\ ~is_currently_debugging
  /\ \E a \in Analyses(messages, chunk) :
       /\ ~a.is_debugging
       /\ NormalizeIds(a.debugging_message_ids) \cap IdsOf(chunk) # {}
       /\ Fold(RunState, chunk, a).is_currently_debugging
       /\ Fold(RunState, chunk, a).debugging_session_count
            = debugging_session_count + 1

\* the window of chunk_size messages with index k
Window(k) ==
  SubSeq(messages, k * chunk_size + 1,
         Min((k + 1) * chunk_size, Len(messages)))

\* the start index a run is given (that of the checkpoint it resumed from,
\* as long as the file is there to tell)
GivenStart ==
  IF loaded
  THEN IF Exists(checkpoint_file)
       THEN checkpoint_file.last_processed_chunk + 1
       ELSE start_chunk_index
  ELSE IF start_chunk # {} THEN Val(start_chunk) - 1 ELSE 0

\* C18: the chunks a run classifies are the windows S, S + 1, ... in
\* increasing order, S being its start index; each is the window of its
\* index, none has an index below S or beyond the last window, there are at
\* most num_chunks of them, and a run that reaches the end has classified
\* every window from S up to the cap or the end of the input.
C18_WindowsFromStart ==
  runNo >= 1 =>
    LET S == GivenStart
        left == Max(0, total_chunks - S)
    IN /\ classified = [j \in 1..Len(classified) |-> S + j - 1]
       /\ Len(sent) = Len(classified)
       /\ \A j \in 1..Len(sent) :
            /\ sent[j] = Window(classified[j])
            /\ classified[j] < total_chunks
       /\ num_chunks # {} => Len(classified) <= Val(num_chunks)
       /\ (pc = "done" /\ num_chunks # {}) =>
            Len(classified) = Min(Val(num_chunks), left)
       /\ (pc = "done" /\ num_chunks = {}) => Len(classified) = left

C18_Witness ==
  /\ pc = "done" /\ start_chunk = {2} /\ num_chunks = {1}
  /\ total_chunks = 3 /\ classified = << 1 >>
  /\ sent = << << messages[2] >> >>

\* a verdict between white space, with a fence (json-tagged or bare) before
\* it, a fence after it, or both
Wrappings(a) ==
  {lead \o << Ws, Json(a), Ws >> \o trail :
     lead \in {<< >>, << FenceJson >>, << Fence >>},
     trail \in {<< >>, << Fence >>}}
  \ {<< Ws, Json(a), Ws >>}

IsWrappedPayload(text) ==
  \E j \in 1..Len(text) :
    text[j].t = "json" /\ text \in Wrappings(text[j].v)

\* C19: a response that is a verdict payload wrapped in code-fence markers
\* (before it, after it, or both) is parsed, into that payload: it is never
\* the response a run is ended by for not parsing.
C19_FencedPayloadParses == err = "parse" => ~IsWrappedPayload(rejected)

\* C20: whatever integers start_chunk and num_chunks are, every chunk sent
\* to the classifier is a non-empty window of the input, the window of its
\* index, and its index is one of 0 .. total_chunks - 1.
C20_OnlyWindowsAreClassified ==
  \A j \in 1..Len(sent) :
    /\ sent[j] # << >>
    /\ classified[j] \in 0..(total_chunks - 1)
    /\ sent[j] = Window(classified[j])

====
